---- MODULE Spec2Model ----
(***************************************************************************)
(* can-joystick: CAN frames from a vehicle bus are decoded into uinput     *)
(* axis / button events.  The model follows src/main.cc: main() and        *)
(* InitUinputDevice() step by step, then CanPacketCallback() one frame at  *)
(* a time, with every write() and ioctl() free to fail.                    *)
(***************************************************************************)
EXTENDS Integers, Sequences, FiniteSets, TLC

VARIABLES
    pc,         \* position of main(): the next call it makes, "pause", or "exited"
    exitCode,   \* value returned by main() / passed to exit(); 0 while running
    bits,       \* capability ioctls that succeeded so far, in call order
    uidev,      \* descriptor written to the uinput fd (NoDev before that)
    created,    \* UI_DEV_CREATE succeeded
    cb,         \* position of CanPacketCallback: "idle" (not running) or "loop"
    msgs,       \* the batch handed to the callback in flight
    i,          \* loop index of the callback (0-based, as in the code)
    handled,    \* the callback's local 'handled'
    out,        \* input_event records written successfully to the uinput fd
    writes,     \* number of event write() calls made, failed ones included
    diag,       \* lines printed to stderr
    delivered,  \* number of callback invocations so far
    nframes,    \* number of frames handed to the callback so far
    mark,       \* Len(out) when the callback in flight was entered
    wmark,      \* writes when the callback in flight was entered
    dmark,      \* Len(diag) when the callback in flight was entered
    cb2,        \* position of a second, concurrent invocation of the callback
    msgs2,      \* its batch
    i2,         \* its loop index
    handled2,   \* its local 'handled'
    mark2,      \* Len(out) when it was entered
    overlap     \* two invocations have been in flight at the same time

vars == <<pc, exitCode, bits, uidev, created, cb, msgs, i, handled, out,
          writes, diag, delivered, nframes, mark, wmark, dmark,
          cb2, msgs2, i2, handled2, mark2, overlap>>

mainVars == <<pc, exitCode, bits, uidev, created>>
cb2Vars == <<cb2, msgs2, i2, handled2, mark2>>
cbVars == <<cb, msgs, i, handled, out, writes, delivered, nframes, mark,
            wmark, dmark, cb2Vars, overlap>>

(***************************************************************************)
(* Bounds of the model.                                                    *)
(***************************************************************************)
MaxBatches == 2     \* callback invocations per run
MaxFrames == 3      \* frames delivered per run, over all batches

(***************************************************************************)
(* Constants of src/main.cc (hexadecimal in the source).                   *)
(***************************************************************************)
kThrottleId == 417          \* 0x01a1
kSteeringId == 485          \* 0x01e5
kBrakeId == 241             \* 0x00f1
kPaddleShifterId == 499     \* 0x01f3

kBrakeLimit == 75           \* 0x4b
kThrottleLimit == 254       \* 0xfe
kSteeringLimit == 7424      \* 0x1d00

EV_SYN == "EV_SYN"
EV_KEY == "EV_KEY"
EV_ABS == "EV_ABS"
SYN_REPORT == "SYN_REPORT"
ABS_WHEEL == "ABS_WHEEL"
ABS_GAS == "ABS_GAS"
ABS_BRAKE == "ABS_BRAKE"
BTN_GEAR_UP == "BTN_GEAR_UP"
BTN_GEAR_DOWN == "BTN_GEAR_DOWN"

(***************************************************************************)
(* Fixed-width integer conversions.                                        *)
(***************************************************************************)
ToUint8(x) == x % 256
ToUint16(x) == x % 65536
ToInt16(x) == LET u == x % 65536 IN IF u >= 32768 THEN u - 65536 ELSE u
ToBool(x) == IF x # 0 THEN 1 ELSE 0
BitAnd1(x) == x % 2                 \* x & 0x01
BitAnd2(x) == ((x \div 2) % 2) * 2  \* x & 0x02

\* msg->frame.data[k], k counted from 0 as in the code.
Data(msg, k) == msg.data[k + 1]

\* A struct input_event; value is __s32 and every value stored into it is an
\* int of at most 17 bits, so the store is exact.
InputEvent(t, c, v) == [type |-> t, code |-> c, value |-> v]

\* What one handler call did: the events it wrote, the write() calls it made,
\* the lines it printed, and whether it called exit(-1).
Result(evs, n, lines, ex) == [evs |-> evs, writes |-> n, diag |-> lines, exit |-> ex]

(***************************************************************************)
(* The frame handlers.  ok is the pair of outcomes of the (at most two)    *)
(* write() calls the handler makes: TRUE is a successful write.            *)
(***************************************************************************)
\* Mutants of HandleThrottlePos: one decodes whatever the length, one reads
\* the byte as a signed char.
HandleThrottlePos_NoLengthCheck(msg, ok) ==
    LET value == ToUint8(Data(msg, 6))
        throttle_event == InputEvent(EV_ABS, ABS_GAS, value)
    IN  IF ok[1]
        THEN Result(<<throttle_event>>, 1, <<>>, FALSE)
        ELSE Result(<<>>, 1, <<"Failed to write throttle event">>, TRUE)

HandleThrottlePos_SignedChar(msg, ok) ==
    IF msg.can_dlc = 7
    THEN LET b == Data(msg, 6)
             value == IF b >= 128 THEN b - 256 ELSE b
             throttle_event == InputEvent(EV_ABS, ABS_GAS, value)
         IN  IF ok[1]
             THEN Result(<<throttle_event>>, 1, <<>>, FALSE)
             ELSE Result(<<>>, 1, <<"Failed to write throttle event">>, TRUE)
    ELSE Result(<<>>, 0, <<"Malformed accelerator position">>, FALSE)

HandleThrottlePos(msg, ok) ==
    IF msg.can_dlc = 7
    THEN LET value == ToUint8(Data(msg, 6))
             throttle_event == InputEvent(EV_ABS, ABS_GAS, value)
         IN  IF ok[1]
             THEN Result(<<throttle_event>>, 1, <<>>, FALSE)
             ELSE Result(<<>>, 1, <<"Failed to write throttle event">>, TRUE)
    ELSE Result(<<>>, 0, <<"Malformed accelerator position">>, FALSE)

\* Mutant of HandleBrakePos: any frame of at least 6 bytes is decoded.
HandleBrakePos_AtLeast(msg, ok) ==
    IF msg.can_dlc >= 6
    THEN LET value == ToUint8(Data(msg, 1))
             brake_event == InputEvent(EV_ABS, ABS_BRAKE, value)
         IN  IF ok[1]
             THEN Result(<<brake_event>>, 1, <<>>, FALSE)
             ELSE Result(<<>>, 1, <<"Failed to write brake event">>, TRUE)
    ELSE Result(<<>>, 0, <<"Malformed brake position">>, FALSE)

HandleBrakePos(msg, ok) ==
    IF msg.can_dlc = 6
    THEN LET value == ToUint8(Data(msg, 1))
             brake_event == InputEvent(EV_ABS, ABS_BRAKE, value)
         IN  IF ok[1]
             THEN Result(<<brake_event>>, 1, <<>>, FALSE)
             ELSE Result(<<>>, 1, <<"Failed to write brake event">>, TRUE)
    ELSE Result(<<>>, 0, <<"Malformed brake position">>, FALSE)

\* Mutant of SteeringValue: the negation is stored back into 16 bits.
SteeringValue_Wrap16(msg) ==
    LET value == ToInt16(ToUint16(Data(msg, 1)) * 256 + Data(msg, 2))
    IN  ToInt16(-value)

\* int16_t value = (uint16_t(data[1]) << 8) | data[2]; the low byte of the
\* shifted operand is zero, so the bitwise or is a sum.  -value is computed
\* in int: the int16_t operand is promoted before the negation.
SteeringValue(msg) ==
    LET value == ToInt16(ToUint16(Data(msg, 1)) * 256 + Data(msg, 2))
    IN  -value

\* Mutant of HandleSteeringPos: a failed write is printed and survived.
HandleSteeringPos_NoExit(msg, ok) ==
    IF msg.can_dlc = 8
    THEN LET wheel_event == InputEvent(EV_ABS, ABS_WHEEL, SteeringValue(msg))
         IN  IF ok[1]
             THEN Result(<<wheel_event>>, 1, <<>>, FALSE)
             ELSE Result(<<>>, 1, <<"Failed to write wheel event">>, FALSE)
    ELSE Result(<<>>, 0, <<"Malformed steering position">>, FALSE)

HandleSteeringPos(msg, ok) ==
    IF msg.can_dlc = 8
    THEN LET wheel_event == InputEvent(EV_ABS, ABS_WHEEL, SteeringValue(msg))
         IN  IF ok[1]
             THEN Result(<<wheel_event>>, 1, <<>>, FALSE)
             ELSE Result(<<>>, 1, <<"Failed to write wheel event">>, TRUE)
    ELSE Result(<<>>, 0, <<"Malformed steering position">>, FALSE)

UpPressed(msg) == ToBool(BitAnd1(Data(msg, 1)))
\* Mutant of DownPressed: the masked byte is stored without the bool conversion.
DownPressed_Raw(msg) == BitAnd2(Data(msg, 1))
DownPressed(msg) == ToBool(BitAnd2(Data(msg, 1)))

\* The malformed branch prints the steering message (src/main.cc:138).
HandlePaddleShifter(msg, ok) ==
    IF msg.can_dlc = 3
    THEN LET up_event == InputEvent(EV_KEY, BTN_GEAR_UP, UpPressed(msg))
             down_event == InputEvent(EV_KEY, BTN_GEAR_DOWN, DownPressed(msg))
         IN  IF ~ok[1]
             THEN Result(<<>>, 1, <<"Failed to write gear up event">>, TRUE)
             ELSE IF ~ok[2]
             THEN Result(<<up_event>>, 2, <<"Failed to write gear down event">>, TRUE)
             ELSE Result(<<up_event, down_event>>, 2, <<>>, FALSE)
    ELSE Result(<<>>, 0, <<"Malformed steering position">>, FALSE)

\* Mutants of HandleCanMessage: one reports a frame handled only when its
\* decode wrote an event, one leaves handled set in the default case.
HandleCanMessage_HandledOnDecode(msg, ok) ==
    LET res == CASE msg.can_id = kThrottleId -> HandleThrottlePos(msg, ok)
                 [] msg.can_id = kBrakeId -> HandleBrakePos(msg, ok)
                 [] msg.can_id = kSteeringId -> HandleSteeringPos(msg, ok)
                 [] msg.can_id = kPaddleShifterId -> HandlePaddleShifter(msg, ok)
                 [] OTHER -> Result(<<>>, 0, <<>>, FALSE)
    IN  [res |-> res, handled |-> res.evs # <<>>]

HandleCanMessage_DefaultHandled(msg, ok) ==
    LET res == CASE msg.can_id = kThrottleId -> HandleThrottlePos(msg, ok)
                 [] msg.can_id = kBrakeId -> HandleBrakePos(msg, ok)
                 [] msg.can_id = kSteeringId -> HandleSteeringPos(msg, ok)
                 [] msg.can_id = kPaddleShifterId -> HandlePaddleShifter(msg, ok)
                 [] OTHER -> Result(<<>>, 0, <<>>, FALSE)
    IN  [res |-> res, handled |-> TRUE]

\* The switch of HandleCanMessage: the handler's result plus the returned flag.
HandleCanMessage(msg, ok) ==
    CASE msg.can_id = kThrottleId ->
            [res |-> HandleThrottlePos(msg, ok), handled |-> TRUE]
      [] msg.can_id = kBrakeId ->
            [res |-> HandleBrakePos(msg, ok), handled |-> TRUE]
      [] msg.can_id = kSteeringId ->
            [res |-> HandleSteeringPos(msg, ok), handled |-> TRUE]
      [] msg.can_id = kPaddleShifterId ->
            [res |-> HandlePaddleShifter(msg, ok), handled |-> TRUE]
      [] OTHER ->
            [res |-> Result(<<>>, 0, <<>>, FALSE), handled |-> FALSE]

SyncEvent == InputEvent(EV_SYN, SYN_REPORT, 0)

(***************************************************************************)
(* main() and InitUinputDevice().                                          *)
(***************************************************************************)
NoDev == [name |-> "", absmin |-> <<>>, absmax |-> <<>>, absfuzz |-> <<>>,
          absflat |-> <<>>]

AbsCodes == {ABS_WHEEL, ABS_GAS, ABS_BRAKE}

\* The uinput_user_dev assembled by InitUinputDevice.
Descriptor ==
    [name |-> "Cadillac ELR",
     absmax |-> [c \in AbsCodes |->
                    CASE c = ABS_WHEEL -> kSteeringLimit
                      [] c = ABS_GAS -> kThrottleLimit
                      [] c = ABS_BRAKE -> kBrakeLimit],
     absmin |-> [c \in AbsCodes |->
                    CASE c = ABS_WHEEL -> -kSteeringLimit
                      [] c = ABS_GAS -> 0
                      [] c = ABS_BRAKE -> 0],
     absfuzz |-> [c \in AbsCodes |-> 0],
     absflat |-> [c \in AbsCodes |-> 0]]

\* Mutants of Ioctls: one declares the gear-up button before the key
\* category, one never declares the brake axis.
Ioctls_ButtonBeforeKey ==
    << [req |-> "UI_SET_EVBIT", arg |-> EV_ABS, err |-> "Failed to set abs attribute"],
       [req |-> "UI_SET_ABSBIT", arg |-> ABS_WHEEL, err |-> "Failed to set wheel attribute"],
       [req |-> "UI_SET_ABSBIT", arg |-> ABS_GAS, err |-> "Failed to set gas attribute"],
       [req |-> "UI_SET_ABSBIT", arg |-> ABS_BRAKE, err |-> "Failed to set brake attribute"],
       [req |-> "UI_SET_KEYBIT", arg |-> BTN_GEAR_UP, err |-> "Failed to set gear up attribute"],
       [req |-> "UI_SET_EVBIT", arg |-> EV_KEY, err |-> "Failed to set key attribute"],
       [req |-> "UI_SET_KEYBIT", arg |-> BTN_GEAR_DOWN, err |-> "Failed to set gear down attribute"] >>

Ioctls_NoBrake ==
    << [req |-> "UI_SET_EVBIT", arg |-> EV_ABS, err |-> "Failed to set abs attribute"],
       [req |-> "UI_SET_ABSBIT", arg |-> ABS_WHEEL, err |-> "Failed to set wheel attribute"],
       [req |-> "UI_SET_ABSBIT", arg |-> ABS_GAS, err |-> "Failed to set gas attribute"],
       [req |-> "UI_SET_EVBIT", arg |-> EV_KEY, err |-> "Failed to set key attribute"],
       [req |-> "UI_SET_KEYBIT", arg |-> BTN_GEAR_UP, err |-> "Failed to set gear up attribute"],
       [req |-> "UI_SET_KEYBIT", arg |-> BTN_GEAR_DOWN, err |-> "Failed to set gear down attribute"] >>

\* The capability ioctls of InitUinputDevice, in call order, each with the
\* line it prints when it fails.
Ioctls ==
    << [req |-> "UI_SET_EVBIT", arg |-> EV_ABS, err |-> "Failed to set abs attribute"],
       [req |-> "UI_SET_ABSBIT", arg |-> ABS_WHEEL, err |-> "Failed to set wheel attribute"],
       [req |-> "UI_SET_ABSBIT", arg |-> ABS_GAS, err |-> "Failed to set gas attribute"],
       [req |-> "UI_SET_ABSBIT", arg |-> ABS_BRAKE, err |-> "Failed to set brake attribute"],
       [req |-> "UI_SET_EVBIT", arg |-> EV_KEY, err |-> "Failed to set key attribute"],
       [req |-> "UI_SET_KEYBIT", arg |-> BTN_GEAR_UP, err |-> "Failed to set gear up attribute"],
       [req |-> "UI_SET_KEYBIT", arg |-> BTN_GEAR_DOWN, err |-> "Failed to set gear down attribute"] >>

\* A failed initialization step: print the line and return -1 from main().
Fail(line) ==
    /\ pc' = "exited"
    /\ exitCode' = -1
    /\ diag' = Append(diag, line)
    /\ UNCHANGED <<bits, uidev, created>>

OpenUinput ==
    /\ pc = "open"
    /\ \E ok \in BOOLEAN :
          IF ok
          THEN /\ pc' = "ioctl"
               /\ UNCHANGED <<exitCode, bits, uidev, created, diag>>
          ELSE Fail("Failed to open uinput")
    /\ UNCHANGED cbVars

SetBit ==
    /\ pc = "ioctl"
    /\ LET call == Ioctls[Len(bits) + 1]
       IN  \E ok \in BOOLEAN :
              IF ok
              THEN /\ bits' = Append(bits, <<call.req, call.arg>>)
                   /\ pc' = IF Len(bits) + 1 = Len(Ioctls) THEN "descriptor" ELSE "ioctl"
                   /\ UNCHANGED <<exitCode, uidev, created, diag>>
              ELSE Fail(call.err)
    /\ UNCHANGED cbVars

WriteDescriptor ==
    /\ pc = "descriptor"
    /\ \E ok \in BOOLEAN :
          IF ok
          THEN /\ uidev' = Descriptor
               /\ pc' = "create"
               /\ UNCHANGED <<exitCode, bits, created, diag>>
          ELSE Fail("Failed to write uinput descriptor")
    /\ UNCHANGED cbVars

DevCreate ==
    /\ pc = "create"
    /\ \E ok \in BOOLEAN :
          IF ok
          THEN /\ created' = TRUE
               /\ pc' = "library_init"
               /\ UNCHANGED <<exitCode, bits, uidev, diag>>
          ELSE Fail("Failed to create uinput device")
    /\ UNCHANGED cbVars

LibraryInit ==
    /\ pc = "library_init"
    /\ \E ok \in BOOLEAN :
          IF ok
          THEN /\ pc' = "bus_init"
               /\ UNCHANGED <<exitCode, bits, uidev, created, diag>>
          ELSE Fail("Failed to init usbcan")
    /\ UNCHANGED cbVars

BusInit ==
    /\ pc = "bus_init"
    /\ \E ok \in BOOLEAN :
          IF ok
          THEN /\ pc' = "bus_start"
               /\ UNCHANGED <<exitCode, bits, uidev, created, diag>>
          ELSE Fail("Failed to init listener on bus 0")
    /\ UNCHANGED cbVars

\* Mutant of BusStart: the failure is printed but main() goes on to pause().
BusStart_IgnoreFailure ==
    /\ pc = "bus_start"
    /\ \E ok \in BOOLEAN :
          /\ pc' = "pause"
          /\ diag' = IF ok THEN diag
                     ELSE Append(diag, "Failed to start listening on bus 0")
          /\ UNCHANGED <<exitCode, bits, uidev, created>>
    /\ UNCHANGED cbVars

BusStart ==
    /\ pc = "bus_start"
    /\ \E ok \in BOOLEAN :
          IF ok
          THEN /\ pc' = "pause"
               /\ UNCHANGED <<exitCode, bits, uidev, created, diag>>
          ELSE Fail("Failed to start listening on bus 0")
    /\ UNCHANGED cbVars

(***************************************************************************)
(* CanPacketCallback.                                                      *)
(***************************************************************************)
\* Mutant of SyncWrite: the sync event is written whatever handled is.
SyncWrite_Unconditional(h, ok) ==
    IF ok
    THEN Result(<<SyncEvent>>, 1, <<>>, FALSE)
    ELSE Result(<<>>, 1, <<"Failed to write sync event">>, FALSE)

\* The tail of the callback: the SYN_REPORT write, made only when some frame
\* of the batch was handled; its failure is printed and nothing else.
SyncWrite(h, ok) ==
    IF h
    THEN IF ok
         THEN Result(<<SyncEvent>>, 1, <<>>, FALSE)
         ELSE Result(<<>>, 1, <<"Failed to write sync event">>, FALSE)
    ELSE Result(<<>>, 0, <<>>, FALSE)

\* Mutant of CallbackEnter: handled outlives the invocation (a static).
CallbackEnter_StickyHandled(batches) ==
    /\ pc = "pause"
    /\ cb = "idle"
    /\ \E batch \in batches :
          /\ msgs' = batch
          /\ nframes' = nframes + Len(batch)
    /\ i' = 0
    /\ cb' = "loop"
    /\ delivered' = delivered + 1
    /\ mark' = Len(out)
    /\ wmark' = writes
    /\ dmark' = Len(diag)
    /\ overlap' = (overlap \/ cb2 = "loop")
    /\ UNCHANGED <<out, writes, diag, handled>>
    /\ UNCHANGED cb2Vars
    /\ UNCHANGED mainVars

\* libusbcan invokes the callback with a batch, only once usbcan_start has
\* succeeded.  This invocation is not entered again while it is in flight;
\* a second one (Callback2Enter) may be.
CallbackEnter(batches) ==
    /\ pc = "pause"
    /\ cb = "idle"
    /\ \E batch \in batches :
          /\ msgs' = batch
          /\ nframes' = nframes + Len(batch)
    /\ i' = 0
    /\ handled' = FALSE
    /\ cb' = "loop"
    /\ delivered' = delivered + 1
    /\ mark' = Len(out)
    /\ wmark' = writes
    /\ dmark' = Len(diag)
    /\ overlap' = (overlap \/ cb2 = "loop")
    /\ UNCHANGED <<out, writes, diag>>
    /\ UNCHANGED cb2Vars
    /\ UNCHANGED mainVars

\* Mutant of CallbackLoop: a frame that prints a malformed line ends the loop.
CallbackLoop_AbortOnMalformed ==
    /\ pc = "pause"
    /\ cb = "loop"
    /\ i < Len(msgs)
    /\ \E ok \in BOOLEAN \X BOOLEAN :
          LET r == HandleCanMessage(msgs[i + 1], ok)
          IN  /\ out' = out \o r.res.evs
              /\ writes' = writes + r.res.writes
              /\ diag' = diag \o r.res.diag
              /\ IF r.res.exit
                 THEN /\ pc' = "exited"
                      /\ exitCode' = -1
                      /\ UNCHANGED <<i, handled>>
                 ELSE /\ i' = IF r.res.diag # <<>> THEN Len(msgs) ELSE i + 1
                      /\ handled' = (handled \/ r.handled)
                      /\ UNCHANGED <<pc, exitCode>>
    /\ UNCHANGED <<bits, uidev, created, cb, msgs, delivered, nframes, mark,
                   wmark, dmark>>
    /\ UNCHANGED <<cb2Vars, overlap>>

\* Mutant of CallbackLoop: a frame equal to the one before it is skipped.
CallbackLoop_Dedup ==
    /\ pc = "pause"
    /\ cb = "loop"
    /\ i < Len(msgs)
    /\ \E ok \in BOOLEAN \X BOOLEAN :
          LET r == HandleCanMessage(msgs[i + 1], ok)
              dup == i > 0 /\ msgs[i + 1] = msgs[i]
          IN  IF dup
              THEN /\ i' = i + 1
                   /\ UNCHANGED <<out, writes, diag, handled, pc, exitCode>>
              ELSE /\ out' = out \o r.res.evs
                   /\ writes' = writes + r.res.writes
                   /\ diag' = diag \o r.res.diag
                   /\ IF r.res.exit
                      THEN /\ pc' = "exited"
                           /\ exitCode' = -1
                           /\ UNCHANGED <<i, handled>>
                      ELSE /\ i' = i + 1
                           /\ handled' = (handled \/ r.handled)
                           /\ UNCHANGED <<pc, exitCode>>
    /\ UNCHANGED <<bits, uidev, created, cb, msgs, delivered, nframes, mark,
                   wmark, dmark>>
    /\ UNCHANGED <<cb2Vars, overlap>>

\* Mutant of CallbackLoop: a sync event follows the events of every handled
\* frame.
CallbackLoop_SyncPerFrame ==
    /\ pc = "pause"
    /\ cb = "loop"
    /\ i < Len(msgs)
    /\ \E ok \in BOOLEAN \X BOOLEAN :
          LET r == HandleCanMessage(msgs[i + 1], ok)
          IN  /\ diag' = diag \o r.res.diag
              /\ IF r.res.exit
                 THEN /\ out' = out \o r.res.evs
                      /\ writes' = writes + r.res.writes
                      /\ pc' = "exited"
                      /\ exitCode' = -1
                      /\ UNCHANGED <<i, handled>>
                 ELSE /\ out' = out \o r.res.evs
                                \o (IF r.handled THEN <<SyncEvent>> ELSE <<>>)
                      /\ writes' = writes + r.res.writes + (IF r.handled THEN 1 ELSE 0)
                      /\ i' = i + 1
                      /\ handled' = (handled \/ r.handled)
                      /\ UNCHANGED <<pc, exitCode>>
    /\ UNCHANGED <<bits, uidev, created, cb, msgs, delivered, nframes, mark,
                   wmark, dmark>>
    /\ UNCHANGED <<cb2Vars, overlap>>

\* One iteration of the for loop: handled |= HandleCanMessage(&msgs[i], fd).
\* A handler whose write fails calls exit(-1) and the process is gone.
CallbackLoop ==
    /\ pc = "pause"
    /\ cb = "loop"
    /\ i < Len(msgs)
    /\ \E ok \in BOOLEAN \X BOOLEAN :
          LET r == HandleCanMessage(msgs[i + 1], ok)
          IN  /\ out' = out \o r.res.evs
              /\ writes' = writes + r.res.writes
              /\ diag' = diag \o r.res.diag
              /\ IF r.res.exit
                 THEN /\ pc' = "exited"
                      /\ exitCode' = -1
                      /\ UNCHANGED <<i, handled>>
                 ELSE /\ i' = i + 1
                      /\ handled' = (handled \/ r.handled)
                      /\ UNCHANGED <<pc, exitCode>>
    /\ UNCHANGED <<bits, uidev, created, cb, msgs, delivered, nframes, mark,
                   wmark, dmark>>
    /\ UNCHANGED <<cb2Vars, overlap>>

\* Mutant of CallbackSync: a failed sync write ends the process like a failed
\* data write.
CallbackSync_FatalSync ==
    /\ pc = "pause"
    /\ cb = "loop"
    /\ i >= Len(msgs)
    /\ \E ok \in BOOLEAN :
          LET r == SyncWrite(handled, ok)
          IN  /\ out' = out \o r.evs
              /\ writes' = writes + r.writes
              /\ diag' = diag \o r.diag
              /\ IF r.diag # <<>>
                 THEN pc' = "exited" /\ exitCode' = -1 /\ cb' = cb
                 ELSE pc' = pc /\ exitCode' = exitCode /\ cb' = "idle"
    /\ UNCHANGED <<msgs, i, handled, delivered, nframes, mark, wmark, dmark>>
    /\ UNCHANGED <<cb2Vars, overlap>>
    /\ UNCHANGED <<bits, uidev, created>>

\* The loop is over: write the sync event if anything was handled, return.
CallbackSync ==
    /\ pc = "pause"
    /\ cb = "loop"
    /\ i >= Len(msgs)
    /\ \E ok \in BOOLEAN :
          LET r == SyncWrite(handled, ok)
          IN  /\ out' = out \o r.evs
              /\ writes' = writes + r.writes
              /\ diag' = diag \o r.diag
    /\ cb' = "idle"
    /\ UNCHANGED <<msgs, i, handled, delivered, nframes, mark, wmark, dmark>>
    /\ UNCHANGED <<cb2Vars, overlap>>
    /\ UNCHANGED mainVars

(***************************************************************************)
(* Frames.                                                                 *)
(***************************************************************************)
Byte == 0..255
Dlc == 0..8

Frame(id, dlc, data) == [can_id |-> id, can_dlc |-> dlc, data |-> data]

\* An 8-byte payload: byte b at offset k (from 0), fill everywhere else.
Payload(k, b, fill) == [j \in 1..8 |-> IF j = k + 1 THEN b ELSE fill]

\* Payload with data[1] = hi, data[2] = lo and zeros elsewhere.
Payload16(hi, lo) == <<0, hi, lo, 0, 0, 0, 0, 0>>

UnknownId == 39321          \* 0x9999, the identifier of no handler

\* The frames of the batch specification: one well-formed frame per
\* handler, a malformed throttle frame, a malformed paddle-shifter frame and
\* an unrecognized frame.
BatchFrames ==
    { Frame(kThrottleId, 7, Payload(6, 128, 0)),
      Frame(kThrottleId, 5, Payload(0, 0, 0)),
      Frame(kBrakeId, 6, Payload(1, 32, 0)),
      Frame(kSteeringId, 8, Payload16(1, 0)),
      Frame(kPaddleShifterId, 3, Payload(1, 3, 0)),
      Frame(kPaddleShifterId, 2, Payload(1, 1, 0)),
      Frame(UnknownId, 8, Payload(0, 0, 0)) }

\* Every batch of at most n frames.
Batches(n) == UNION { [1..k -> BatchFrames] : k \in 0..n }

\* Identifiers of the decode specification: the four handled ones, their
\* numeric neighbours and the ends of the 16-bit range.
DecodeIds == { kThrottleId, kBrakeId, kSteeringId, kPaddleShifterId,
               UnknownId, 0, kThrottleId + 1, 65535 }

ByteSample == {0, 1, 2, 3, 75, 76, 128, 254, 255}

\* Payloads of the decode specification: any offset carrying a sampled byte
\* over a background of 0x00 or 0xff.
SamplePayloads ==
    { Payload(k, b, fill) : k \in 0..7, b \in ByteSample, fill \in {0, 255} }

\* Every identifier with every length over the sampled payloads, and each
\* single-byte handler at its own length with every value of every byte it
\* could read.
DecodeFrames ==
    { Frame(id, dlc, d) : id \in DecodeIds, dlc \in Dlc, d \in SamplePayloads }
    \cup { Frame(kThrottleId, 7, Payload(k, b, fill)) :
              k \in {5, 6}, b \in Byte, fill \in {0, 255} }
    \cup { Frame(kBrakeId, 6, Payload(k, b, fill)) :
              k \in {1, 2}, b \in Byte, fill \in {0, 255} }
    \cup { Frame(kPaddleShifterId, 3, Payload(k, b, fill)) :
              k \in {1, 2}, b \in Byte, fill \in {0, 255} }

\* Steering frames with every 16-bit pattern at offsets 1..2.
SteeringFrames ==
    { Frame(kSteeringId, 8, Payload16(hi, lo)) : hi \in Byte, lo \in Byte }

(***************************************************************************)
(* Specifications.                                                         *)
(***************************************************************************)
\* The process at the start of main().
Init ==
    /\ pc = "open"
    /\ exitCode = 0
    /\ bits = <<>>
    /\ uidev = NoDev
    /\ created = FALSE
    /\ cb = "idle"
    /\ msgs = <<>>
    /\ i = 0
    /\ handled = FALSE
    /\ out = <<>>
    /\ writes = 0
    /\ diag = <<>>
    /\ delivered = 0
    /\ nframes = 0
    /\ mark = 0
    /\ wmark = 0
    /\ dmark = 0
    /\ cb2 = "idle"
    /\ msgs2 = <<>>
    /\ i2 = 0
    /\ handled2 = FALSE
    /\ mark2 = 0
    /\ overlap = FALSE

\* The process blocked in pause() after a successful start-up.
InitRunning ==
    /\ pc = "pause"
    /\ exitCode = 0
    /\ bits = [k \in 1..Len(Ioctls) |-> <<Ioctls[k].req, Ioctls[k].arg>>]
    /\ uidev = Descriptor
    /\ created = TRUE
    /\ cb = "idle"
    /\ msgs = <<>>
    /\ i = 0
    /\ handled = FALSE
    /\ out = <<>>
    /\ writes = 0
    /\ diag = <<>>
    /\ delivered = 0
    /\ nframes = 0
    /\ mark = 0
    /\ wmark = 0
    /\ dmark = 0
    /\ cb2 = "idle"
    /\ msgs2 = <<>>
    /\ i2 = 0
    /\ handled2 = FALSE
    /\ mark2 = 0
    /\ overlap = FALSE

\* The transport delivers a batch, within the bounds of the model.
Deliver ==
    /\ delivered < MaxBatches
    /\ nframes <= MaxFrames
    /\ CallbackEnter(Batches(MaxFrames - nframes))

\* The transport delivers one frame, once.
DeliverDecode ==
    /\ delivered = 0
    /\ CallbackEnter({ <<f>> : f \in DecodeFrames })

DeliverSteering ==
    /\ delivered = 0
    /\ CallbackEnter({ <<f>> : f \in SteeringFrames })

Next ==
    \/ OpenUinput
    \/ SetBit
    \/ WriteDescriptor
    \/ DevCreate
    \/ LibraryInit
    \/ BusInit
    \/ BusStart
    \/ Deliver
    \/ CallbackLoop
    \/ CallbackSync

Spec == Init /\ [][Next]_vars

NextDecode == DeliverDecode \/ CallbackLoop \/ CallbackSync

SpecDecode == InitRunning /\ [][NextDecode]_vars

NextSteering == DeliverSteering \/ CallbackLoop \/ CallbackSync

SpecSteering == InitRunning /\ [][NextSteering]_vars

\* The state main() reaches at pause() is the one InitRunning starts from.
RunningIsInitRunning ==
    (pc = "pause" /\ delivered = 0) => InitRunning

(***************************************************************************)
(* A second invocation of CanPacketCallback running concurrently with the  *)
(* first: the same code on its own locals, writing to the same descriptor. *)
(* The callback takes no lock, so nothing orders the steps of the two.     *)
(***************************************************************************)
Callback2Enter(batches) ==
    /\ pc = "pause"
    /\ cb2 = "idle"
    /\ \E batch \in batches :
          /\ msgs2' = batch
          /\ nframes' = nframes + Len(batch)
    /\ i2' = 0
    /\ handled2' = FALSE
    /\ cb2' = "loop"
    /\ delivered' = delivered + 1
    /\ mark2' = Len(out)
    /\ overlap' = (overlap \/ cb = "loop")
    /\ UNCHANGED <<out, writes, diag>>
    /\ UNCHANGED <<cb, msgs, i, handled, mark, wmark, dmark>>
    /\ UNCHANGED mainVars

Callback2Loop ==
    /\ pc = "pause"
    /\ cb2 = "loop"
    /\ i2 < Len(msgs2)
    /\ \E ok \in BOOLEAN \X BOOLEAN :
          LET r == HandleCanMessage(msgs2[i2 + 1], ok)
          IN  /\ out' = out \o r.res.evs
              /\ writes' = writes + r.res.writes
              /\ diag' = diag \o r.res.diag
              /\ IF r.res.exit
                 THEN /\ pc' = "exited"
                      /\ exitCode' = -1
                      /\ UNCHANGED <<i2, handled2>>
                 ELSE /\ i2' = i2 + 1
                      /\ handled2' = (handled2 \/ r.handled)
                      /\ UNCHANGED <<pc, exitCode>>
    /\ UNCHANGED <<bits, uidev, created, cb2, msgs2, mark2, overlap, delivered,
                   nframes>>
    /\ UNCHANGED <<cb, msgs, i, handled, mark, wmark, dmark>>

Callback2Sync ==
    /\ pc = "pause"
    /\ cb2 = "loop"
    /\ i2 >= Len(msgs2)
    /\ \E ok \in BOOLEAN :
          LET r == SyncWrite(handled2, ok)
          IN  /\ out' = out \o r.evs
              /\ writes' = writes + r.writes
              /\ diag' = diag \o r.diag
    /\ cb2' = "idle"
    /\ UNCHANGED <<msgs2, i2, handled2, mark2, overlap, delivered, nframes>>
    /\ UNCHANGED <<cb, msgs, i, handled, mark, wmark, dmark>>
    /\ UNCHANGED mainVars

\* The frames of the concurrent specification.
ConcurrentFrames ==
    { Frame(kThrottleId, 7, Payload(6, 128, 0)),
      Frame(kThrottleId, 5, Payload(0, 0, 0)),
      Frame(kBrakeId, 6, Payload(1, 32, 0)),
      Frame(kPaddleShifterId, 3, Payload(1, 3, 0)) }

ConcurrentBatches(n) == UNION { [1..k -> ConcurrentFrames] : k \in 0..n }

\* The transport invokes the callback, on either of two threads.
DeliverFirst ==
    /\ delivered < MaxBatches
    /\ nframes <= MaxFrames
    /\ CallbackEnter(ConcurrentBatches(MaxFrames - nframes))

DeliverSecond ==
    /\ delivered < MaxBatches
    /\ nframes <= MaxFrames
    /\ Callback2Enter(ConcurrentBatches(MaxFrames - nframes))

NextConcurrent ==
    \/ DeliverFirst
    \/ DeliverSecond
    \/ CallbackLoop
    \/ CallbackSync
    \/ Callback2Loop
    \/ Callback2Sync

SpecConcurrent == InitRunning /\ [][NextConcurrent]_vars

(***************************************************************************)
(* What the callback invocation in flight (or the last one) has done.      *)
(***************************************************************************)
\* Events written since the callback was entered.
Seg == SubSeq(out, mark + 1, Len(out))

\* Lines printed since the callback was entered.
DSeg == SubSeq(diag, dmark + 1, Len(diag))

\* The callback has returned to the transport.
Returned == pc = "pause" /\ cb = "idle" /\ delivered > 0

\* The callback has run exactly its first iteration and is still running.
AfterFirstFrame == pc = "pause" /\ cb = "loop" /\ i = 1

\* The sync write of this invocation failed.
SyncFailed == \E k \in DOMAIN DSeg : DSeg[k] = "Failed to write sync event"

SyncCount(evs) == Cardinality({k \in DOMAIN evs : evs[k].type = EV_SYN})

DataCount(evs) == Cardinality({k \in DOMAIN evs : evs[k].type \in {EV_ABS, EV_KEY}})

\* The identifiers HandleCanMessage has a case for.
HandledIds == {kThrottleId, kBrakeId, kSteeringId, kPaddleShifterId}

MalformedLines == {"Malformed accelerator position", "Malformed brake position",
                   "Malformed steering position"}

DataWriteFailLines == {"Failed to write throttle event", "Failed to write brake event",
                       "Failed to write wheel event", "Failed to write gear up event",
                       "Failed to write gear down event"}

(***************************************************************************)
(* Claims.                                                                 *)
(***************************************************************************)
\* The frame lengths the claims give: throttle 7, brake 6, steering 8,
\* paddle shifter 3.
RequiredLen(id) ==
    CASE id = kThrottleId -> 7
      [] id = kBrakeId -> 6
      [] id = kSteeringId -> 8
      [] id = kPaddleShifterId -> 3

Recognized(f) == f.can_id \in HandledIds
Malformed(f) == Recognized(f) /\ f.can_dlc # RequiredLen(f.can_id)

\* C1: every EV_ABS event written to the device has a value inside the range
\* the descriptor declares for its code (absmin[code]..absmax[code]).
C1_AxisValuesInDeclaredRange ==
    \A k \in DOMAIN out :
        out[k].type = EV_ABS =>
            /\ out[k].code \in DOMAIN uidev.absmax
            /\ uidev.absmin[out[k].code] <= out[k].value
            /\ out[k].value <= uidev.absmax[out[k].code]

\* C2: with all writes succeeding, a returned callback has written exactly
\* one sync event, after every axis/button event of the batch, if the batch
\* holds a frame with a handled identifier, and no sync event otherwise;
\* while the loop runs no sync event has been written.
C2_OneTrailingSync ==
    /\ (pc = "pause" /\ cb = "loop") => SyncCount(Seg) = 0
    /\ (Returned /\ ~SyncFailed) =>
          IF \E k \in DOMAIN msgs : Recognized(msgs[k])
          THEN /\ SyncCount(Seg) = 1
               /\ Seg[Len(Seg)] = SyncEvent
               /\ \A k \in 1..(Len(Seg) - 1) : Seg[k].type \in {EV_ABS, EV_KEY}
          ELSE SyncCount(Seg) = 0

\* C2 witness: a batch of two frames wrote three data events and then the sync.
C2_Witness ==
    /\ Returned /\ ~SyncFailed
    /\ Len(msgs) = 2
    /\ Len(Seg) = 4
    /\ DataCount(SubSeq(Seg, 1, 3)) = 3
    /\ Seg[4] = SyncEvent

\* C3: a batch whose recognized frames are all of the wrong length (and
\* which has at least one) writes no axis/button event and exactly one sync.
C3_MalformedStillSyncs ==
    (/\ Returned /\ ~SyncFailed
     /\ \E k \in DOMAIN msgs : Recognized(msgs[k])
     /\ \A k \in DOMAIN msgs : Recognized(msgs[k]) => Malformed(msgs[k]))
    => Seg = <<SyncEvent>>

\* C3 witness: a malformed frame next to an unrecognized one, and the sync.
C3_Witness ==
    /\ Returned /\ ~SyncFailed
    /\ Len(msgs) = 2
    /\ Malformed(msgs[1])
    /\ ~Recognized(msgs[2])
    /\ Seg = <<SyncEvent>>
    /\ Len(DSeg) = 1

\* The batch is a single throttle frame of length 5.
ThrottleLen5 ==
    /\ Len(msgs) = 1
    /\ msgs[1].can_id = kThrottleId
    /\ msgs[1].can_dlc = 5

\* C4 as claimed: a single throttle frame of length 5 produces no
\* axis/button event, one malformed-frame diagnostic and no sync event.
C4_Len5ThrottleNoSync ==
    (Returned /\ ~SyncFailed /\ ThrottleLen5) =>
        /\ DataCount(Seg) = 0
        /\ DSeg = <<"Malformed accelerator position">>
        /\ SyncCount(Seg) = 0

\* C4 as amended: a single throttle frame of length 5 produces no
\* axis/button event, one malformed-frame diagnostic and exactly one sync
\* write, which puts one sync event on the device unless that write fails.
C4_Len5ThrottleOneSync ==
    (Returned /\ ThrottleLen5) =>
        /\ DataCount(Seg) = 0
        /\ writes = wmark + 1
        /\ IF SyncFailed
           THEN /\ Seg = <<>>
                /\ DSeg = <<"Malformed accelerator position", "Failed to write sync event">>
           ELSE /\ Seg = <<SyncEvent>>
                /\ DSeg = <<"Malformed accelerator position">>

C4_Witness ==
    /\ Returned /\ ~SyncFailed /\ ThrottleLen5
    /\ Seg = <<SyncEvent>>
    /\ DSeg = <<"Malformed accelerator position">>

\* C5: decoding a frame with a handled identifier and any length other than
\* the required one writes no event, makes no write call and prints exactly
\* one malformed-frame line; it cannot end the process.
C5_WrongLengthNoWrite ==
    (delivered > 0 /\ Len(msgs) = 1 /\ Malformed(msgs[1])) =>
        /\ pc = "pause"
        /\ AfterFirstFrame =>
              /\ Seg = <<>>
              /\ writes = wmark
              /\ Len(DSeg) = 1
              /\ DSeg[1] \in MalformedLines

\* C5 witness: a steering frame of length 0 was decoded.
C5_Witness ==
    /\ AfterFirstFrame
    /\ Len(msgs) = 1
    /\ msgs[1].can_id = kSteeringId
    /\ msgs[1].can_dlc = 0
    /\ Seg = <<>>
    /\ writes = wmark
    /\ DSeg = <<"Malformed steering position">>

\* C6: a batch all of whose frames carry an identifier outside the four
\* handled ones, whatever their length and payload, writes no event, makes
\* no write call, prints nothing, leaves handled false and writes no sync.
C6_UnrecognizedIsSilent ==
    (delivered > 0 /\ \A k \in DOMAIN msgs : msgs[k].can_id \notin HandledIds) =>
        /\ pc = "pause"
        /\ handled = FALSE
        /\ Seg = <<>>
        /\ DSeg = <<>>
        /\ writes = wmark

\* C6 witness: the callback returned from a frame with identifier 0x9999.
C6_Witness ==
    /\ Returned
    /\ Len(msgs) = 1
    /\ msgs[1].can_id = UnknownId
    /\ msgs[1].can_dlc = 7
    /\ handled = FALSE
    /\ out = <<>>
    /\ diag = <<>>

\* C7: a throttle frame of length 7 writes exactly one EV_ABS/ABS_GAS event
\* whose value is payload byte 6, and a brake frame of length 6 exactly one
\* EV_ABS/ABS_BRAKE event whose value is payload byte 1, whatever the bytes.
C7_ThrottleBrakePassThrough ==
    (AfterFirstFrame /\ Len(msgs) = 1) =>
        /\ (msgs[1].can_id = kThrottleId /\ msgs[1].can_dlc = 7) =>
              Seg = << [type |-> EV_ABS, code |-> ABS_GAS, value |-> msgs[1].data[7]] >>
        /\ (msgs[1].can_id = kBrakeId /\ msgs[1].can_dlc = 6) =>
              Seg = << [type |-> EV_ABS, code |-> ABS_BRAKE, value |-> msgs[1].data[2]] >>

\* C7 witness: throttle byte 6 is 0xff over a background of zeros.
C7_Witness ==
    /\ AfterFirstFrame
    /\ Len(msgs) = 1
    /\ msgs[1].can_id = kThrottleId
    /\ msgs[1].can_dlc = 7
    /\ msgs[1].data = <<0, 0, 0, 0, 0, 0, 255, 0>>
    /\ Seg = << [type |-> EV_ABS, code |-> ABS_GAS, value |-> 255] >>

\* The signed 16-bit big-endian integer at payload offsets 1 (high), 2 (low).
BE16(f) ==
    LET u == f.data[2] * 256 + f.data[3]
    IN  IF u >= 32768 THEN u - 65536 ELSE u

\* The steering frame whose 16-bit field carries x (its low 16 bits).
SteeringFrameOf(x) ==
    LET u == x % 65536
    IN  Frame(kSteeringId, 8, Payload16(u \div 256, u % 256))

\* A steering frame of length 8 wrote exactly one EV_ABS/ABS_WHEEL event of
\* value -v, v the signed big-endian 16-bit integer at offsets 1..2.
SteeringNegates ==
    (AfterFirstFrame /\ Len(msgs) = 1
     /\ msgs[1].can_id = kSteeringId /\ msgs[1].can_dlc = 8) =>
        Seg = << [type |-> EV_ABS, code |-> ABS_WHEEL, value |-> -BE16(msgs[1])] >>

\* C8 as claimed: the event value is -v for every v in -32768..32767, and
\* decoding the frame that carries -v yields v back.
C8_SteeringRoundTripAll ==
    /\ SteeringNegates
    /\ (AfterFirstFrame /\ Len(msgs) = 1) =>
          SteeringValue(SteeringFrameOf(-BE16(msgs[1]))) = BE16(msgs[1])

\* C8 as amended: the event value is -v for every v in -32768..32767
\* (32768 for v = -32768, no 16-bit wraparound), and for every v in
\* -32767..32767 decoding the frame that carries -v yields v back; the
\* 16-bit field cannot carry 32768.
C8_SteeringRoundTrip ==
    /\ SteeringNegates
    /\ (AfterFirstFrame /\ Len(msgs) = 1 /\ BE16(msgs[1]) # -32768) =>
          SteeringValue(SteeringFrameOf(-BE16(msgs[1]))) = BE16(msgs[1])

\* C8 witness: the field 0x8000 (v = -32768) was decoded to 32768.
C8_Witness ==
    /\ AfterFirstFrame
    /\ Len(msgs) = 1
    /\ msgs[1].data = <<0, 128, 0, 0, 0, 0, 0, 0>>
    /\ Seg = << [type |-> EV_ABS, code |-> ABS_WHEEL, value |-> 32768] >>

\* C9: a paddle-shifter frame of length 3 writes exactly two EV_KEY events,
\* BTN_GEAR_UP then BTN_GEAR_DOWN, with values bit 0 and bit 1 of payload
\* byte 1 (each 0 or 1), also when both bits are clear.
C9_PaddleTwoButtons ==
    (AfterFirstFrame /\ Len(msgs) = 1
     /\ msgs[1].can_id = kPaddleShifterId /\ msgs[1].can_dlc = 3) =>
        LET b == msgs[1].data[2]
        IN  Seg = << [type |-> EV_KEY, code |-> BTN_GEAR_UP, value |-> b % 2],
                     [type |-> EV_KEY, code |-> BTN_GEAR_DOWN, value |-> (b \div 2) % 2] >>

\* C9 witness: both bits clear (byte 1 is 0xfc), two events of value 0.
C9_Witness ==
    /\ AfterFirstFrame
    /\ Len(msgs) = 1
    /\ msgs[1].can_id = kPaddleShifterId
    /\ msgs[1].can_dlc = 3
    /\ msgs[1].data[2] = 252
    /\ Seg = << [type |-> EV_KEY, code |-> BTN_GEAR_UP, value |-> 0],
                [type |-> EV_KEY, code |-> BTN_GEAR_DOWN, value |-> 0] >>

\* Some axis or button write has failed.
DataWriteFailed == \E k \in DOMAIN diag : diag[k] \in DataWriteFailLines

\* C10: the step in which an axis or button write fails ends the process
\* with a non-zero exit code, the failed write being the last call made (no
\* sync, loop index not advanced); from then on nothing changes: no frame is
\* decoded, no event or sync is written, no batch is delivered.
C10_DataWriteFailureIsFatal ==
    [][ /\ DataWriteFailed' =>
              /\ pc' = "exited"
              /\ exitCode' # 0
              /\ diag'[Len(diag')] \in DataWriteFailLines
              /\ SyncCount(Seg') = 0
        /\ (~DataWriteFailed /\ DataWriteFailed') =>
              /\ i' = i
              /\ Len(diag') = Len(diag) + 1
              /\ out' = out \o SubSeq(out', Len(out) + 1, Len(out'))
              /\ Len(out') - Len(out) = writes' - writes - 1
        /\ DataWriteFailed => UNCHANGED vars ]_vars

\* C10 witness: the first frame of the second batch failed to write, after a
\* first batch that was written and synced; a frame is left undecoded.
C10_Witness ==
    /\ pc = "exited"
    /\ DataWriteFailed
    /\ delivered = 2
    /\ Len(msgs) = 2
    /\ i = 0
    /\ Seg = <<>>
    /\ mark > 0
    /\ out[mark] = SyncEvent

(***************************************************************************)
(* The decode table of the claims: what each frame is to produce.          *)
(***************************************************************************)
\* Events a frame is to produce: throttle (length 7) byte 6 as ABS_GAS, brake
\* (length 6) byte 1 as ABS_BRAKE, steering (length 8) the negated signed
\* big-endian bytes 1..2 as ABS_WHEEL, paddle shifter (length 3) bits 0 and 1
\* of byte 1 as BTN_GEAR_UP then BTN_GEAR_DOWN; nothing for any other frame.
RefEvents(f) ==
    CASE f.can_id = kThrottleId /\ f.can_dlc = 7 ->
            << [type |-> EV_ABS, code |-> ABS_GAS, value |-> f.data[7]] >>
      [] f.can_id = kBrakeId /\ f.can_dlc = 6 ->
            << [type |-> EV_ABS, code |-> ABS_BRAKE, value |-> f.data[2]] >>
      [] f.can_id = kSteeringId /\ f.can_dlc = 8 ->
            << [type |-> EV_ABS, code |-> ABS_WHEEL, value |-> -BE16(f)] >>
      [] f.can_id = kPaddleShifterId /\ f.can_dlc = 3 ->
            << [type |-> EV_KEY, code |-> BTN_GEAR_UP, value |-> f.data[2] % 2],
               [type |-> EV_KEY, code |-> BTN_GEAR_DOWN, value |-> (f.data[2] \div 2) % 2] >>
      [] OTHER -> <<>>

\* The line a frame is to print: one malformed-frame line for a handled
\* identifier with the wrong length, nothing otherwise.
RefLines(f) ==
    IF ~Malformed(f) THEN <<>>
    ELSE CASE f.can_id = kThrottleId -> <<"Malformed accelerator position">>
           [] f.can_id = kBrakeId -> <<"Malformed brake position">>
           [] OTHER -> <<"Malformed steering position">>

RECURSIVE RefData(_)
RefData(fs) == IF fs = <<>> THEN <<>> ELSE RefEvents(Head(fs)) \o RefData(Tail(fs))

RECURSIVE RefDiag(_)
RefDiag(fs) == IF fs = <<>> THEN <<>> ELSE RefLines(Head(fs)) \o RefDiag(Tail(fs))

\* The whole output of a batch whose writes all succeed.
RefSeg(fs) ==
    RefData(fs) \o (IF \E k \in DOMAIN fs : Recognized(fs[k]) THEN <<SyncEvent>> ELSE <<>>)

\* A sync write failed in an invocation before the one in flight.
EarlierSyncFailure == \E k \in 1..dmark : diag[k] = "Failed to write sync event"

\* C11: the step in which the sync write fails prints one line and returns
\* from the callback: the process keeps running with exit code 0, the write
\* was made once and nothing reached the device; every batch delivered after
\* it is decoded and written as the decode table says.
C11_SyncFailureIsSurvived ==
    [][ /\ (Len(diag') = Len(diag) + 1
            /\ diag'[Len(diag')] = "Failed to write sync event") =>
              /\ pc' = "pause"
              /\ exitCode' = 0
              /\ cb' = "idle"
              /\ out' = out
              /\ writes' = writes + 1
        /\ (EarlierSyncFailure' /\ pc' = "pause" /\ cb' = "loop") =>
              /\ Seg' = RefData(SubSeq(msgs', 1, i'))
              /\ DSeg' = RefDiag(SubSeq(msgs', 1, i'))
        /\ (EarlierSyncFailure' /\ Returned' /\ ~SyncFailed') =>
              /\ Seg' = RefSeg(msgs')
              /\ DSeg' = RefDiag(msgs') ]_vars

\* C11 witness: the sync write of the first batch failed and the second
\* batch was written, sync included.
C11_Witness ==
    /\ Returned /\ ~SyncFailed
    /\ delivered = 2
    /\ EarlierSyncFailure
    /\ Len(Seg) = 3
    /\ Seg[3] = SyncEvent
    /\ DataCount(Seg) = 2

\* The initialization steps in the order of the claim, each by the line its
\* failure prints: device open, the capability declarations, descriptor
\* write, activation, transport library init, bus init, bus start.
InitOrder ==
    << "Failed to open uinput",
       "Failed to set abs attribute", "Failed to set wheel attribute",
       "Failed to set gas attribute", "Failed to set brake attribute",
       "Failed to set key attribute", "Failed to set gear up attribute",
       "Failed to set gear down attribute",
       "Failed to write uinput descriptor",
       "Failed to create uinput device",
       "Failed to init usbcan",
       "Failed to init listener on bus 0",
       "Failed to start listening on bus 0" >>

\* Some initialization step has failed.
InitFailed == \E k \in DOMAIN diag : \E n \in DOMAIN InitOrder : diag[k] = InitOrder[n]

\* Number of initialization steps main() has completed.
StepsDone ==
    CASE pc = "open" -> 0
      [] pc = "ioctl" -> 1 + Len(bits)
      [] pc = "descriptor" -> 8
      [] pc = "create" -> 9
      [] pc = "library_init" -> 10
      [] pc = "bus_init" -> 11
      [] pc = "bus_start" -> 12
      [] OTHER -> 13

\* C12: the step in which an initialization call fails is the next step in
\* order, it has no effect but its line, and it ends the process with a
\* non-zero exit code; from then on nothing changes, so no later step runs,
\* pause() is not reached, the callback is never invoked and no event is
\* ever written; the failure line is the only one (no retry).
C12_InitFailureIsFatal ==
    [][ /\ InitFailed' =>
              /\ pc' = "exited"
              /\ exitCode' # 0
              /\ Len(diag') = 1
              /\ out' = <<>>
              /\ writes' = 0
              /\ delivered' = 0
              /\ cb' = "idle"
        /\ (~InitFailed /\ InitFailed') =>
              /\ StepsDone < Len(InitOrder)
              /\ diag'[1] = InitOrder[StepsDone + 1]
              /\ UNCHANGED <<bits, uidev, created>>
        /\ InitFailed => UNCHANGED vars ]_vars

\* C12 witness: declaring the key category failed after the four axis
\* declarations; no descriptor, no device, no event.
C12_Witness ==
    /\ pc = "exited"
    /\ exitCode = -1
    /\ diag = <<"Failed to set key attribute">>
    /\ Len(bits) = 4
    /\ uidev = NoDev
    /\ ~created
    /\ out = <<>>

WellFormed(f) == ~Malformed(f)
IsData(e) == e.type \in {EV_ABS, EV_KEY}
IsMalformedLine(l) == l \in MalformedLines

\* C13: while the loop runs, the events written so far are those of the
\* frames decoded so far with the malformed ones removed, and one malformed
\* line was printed per malformed frame; the callback returns only after
\* the last frame, with the data events of the batch without its malformed
\* frames; the process ends inside a batch only on a failed data write.
C13_MalformedNeverAborts ==
    /\ (pc = "pause" /\ cb = "loop") =>
          /\ Seg = RefData(SelectSeq(SubSeq(msgs, 1, i), WellFormed))
          /\ Len(SelectSeq(DSeg, IsMalformedLine))
                = Len(SelectSeq(SubSeq(msgs, 1, i), Malformed))
    /\ Returned =>
          /\ i = Len(msgs)
          /\ SelectSeq(Seg, IsData) = RefData(SelectSeq(msgs, WellFormed))
          /\ Len(SelectSeq(DSeg, IsMalformedLine)) = Len(SelectSeq(msgs, Malformed))
    /\ (pc = "exited" /\ delivered > 0) => DataWriteFailed

\* C13 witness: a well-formed frame between two malformed ones was written.
C13_Witness ==
    /\ Returned /\ ~SyncFailed
    /\ Len(msgs) = 3
    /\ Malformed(msgs[1])
    /\ Recognized(msgs[2]) /\ WellFormed(msgs[2])
    /\ Malformed(msgs[3])
    /\ Seg = RefEvents(msgs[2]) \o <<SyncEvent>>
    /\ Len(DSeg) = 2

\* C14: the device stream only grows at its end; the iteration for frame
\* i writes exactly the events of frame i, in their order, before the
\* iteration for any later frame starts (a failed write cuts them short and
\* ends the process); so a returned callback has written the events of its
\* frames in batch order, one set per frame, equal frames included.
C14_WrittenInBatchOrder ==
    [][ /\ Len(out') >= Len(out)
        /\ SubSeq(out', 1, Len(out)) = out
        /\ (pc = "pause" /\ cb = "loop" /\ i' = i + 1) =>
              out' = out \o RefEvents(msgs[i + 1])
        /\ (pc = "pause" /\ pc' = "exited") =>
              \E n \in 0..1 :
                 /\ n < Len(RefEvents(msgs[i + 1]))
                 /\ out' = out \o SubSeq(RefEvents(msgs[i + 1]), 1, n)
        /\ Returned' => SelectSeq(Seg', IsData) = RefData(msgs') ]_vars

\* C14 witness: two equal paddle-shifter frames wrote up, down, up, down.
C14_Witness ==
    /\ Returned /\ ~SyncFailed
    /\ Len(msgs) = 2
    /\ msgs[1] = msgs[2]
    /\ msgs[1].can_id = kPaddleShifterId
    /\ Len(RefEvents(msgs[1])) = 2
    /\ Seg = RefEvents(msgs[1]) \o RefEvents(msgs[2]) \o <<SyncEvent>>

\* The capability ioctl <<req, arg>> has succeeded.
Declared(req, arg) == \E k \in DOMAIN bits : bits[k] = <<req, arg>>

AllAxesDeclared == \A c \in {ABS_WHEEL, ABS_GAS, ABS_BRAKE} : Declared("UI_SET_ABSBIT", c)
AllButtonsDeclared == \A c \in {BTN_GEAR_UP, BTN_GEAR_DOWN} : Declared("UI_SET_KEYBIT", c)
AnyAxisDeclared == \E c \in {ABS_WHEEL, ABS_GAS, ABS_BRAKE} : Declared("UI_SET_ABSBIT", c)
AnyButtonDeclared == \E c \in {BTN_GEAR_UP, BTN_GEAR_DOWN} : Declared("UI_SET_KEYBIT", c)

\* The descriptor is submitted after every declaration, the device activated
\* after the descriptor, and the transport started (so that the callback
\* can run and write) only after the activation.
DescriptorThenActivation ==
    /\ uidev # NoDev =>
          /\ Declared("UI_SET_EVBIT", EV_ABS) /\ Declared("UI_SET_EVBIT", EV_KEY)
          /\ AllAxesDeclared /\ AllButtonsDeclared
          /\ uidev = Descriptor
    /\ created => uidev # NoDev
    /\ (pc = "pause" \/ delivered > 0 \/ writes > 0 \/ out # <<>>) => created

\* C15 as claimed: both event categories are declared before any axis code,
\* every axis code before any button code, then descriptor, activation and
\* transport start in that order.
C15_CategoriesThenCodes ==
    /\ (AnyAxisDeclared \/ AnyButtonDeclared) =>
          (Declared("UI_SET_EVBIT", EV_ABS) /\ Declared("UI_SET_EVBIT", EV_KEY))
    /\ AnyButtonDeclared => AllAxesDeclared
    /\ DescriptorThenActivation

\* C15 as amended: the axis category is declared, then each axis code
\* (wheel, gas, brake), then the button category, then each button code
\* (gear up, gear down), then descriptor, activation and transport start in
\* that order.
C15_InitOrder ==
    /\ AnyAxisDeclared => Declared("UI_SET_EVBIT", EV_ABS)
    /\ Declared("UI_SET_ABSBIT", ABS_GAS) => Declared("UI_SET_ABSBIT", ABS_WHEEL)
    /\ Declared("UI_SET_ABSBIT", ABS_BRAKE) => Declared("UI_SET_ABSBIT", ABS_GAS)
    /\ Declared("UI_SET_EVBIT", EV_KEY) => AllAxesDeclared
    /\ AnyButtonDeclared => Declared("UI_SET_EVBIT", EV_KEY)
    /\ Declared("UI_SET_KEYBIT", BTN_GEAR_DOWN) => Declared("UI_SET_KEYBIT", BTN_GEAR_UP)
    /\ Len(bits) = Cardinality({bits[k] : k \in DOMAIN bits})
    /\ DescriptorThenActivation

\* C15 witness: an event was written, after the seven declarations in the
\* order of the code, the descriptor and the activation.
C15_Witness ==
    /\ out # <<>>
    /\ created
    /\ uidev = Descriptor
    /\ bits = << <<"UI_SET_EVBIT", EV_ABS>>, <<"UI_SET_ABSBIT", ABS_WHEEL>>,
                 <<"UI_SET_ABSBIT", ABS_GAS>>, <<"UI_SET_ABSBIT", ABS_BRAKE>>,
                 <<"UI_SET_EVBIT", EV_KEY>>, <<"UI_SET_KEYBIT", BTN_GEAR_UP>>,
                 <<"UI_SET_KEYBIT", BTN_GEAR_DOWN>> >>

\* C16: whatever was delivered before, the events and lines of the
\* invocation in flight are those its own frames give by the decode table,
\* handled is set exactly when one of the frames decoded so far has a
\* handled identifier, and a returned callback whose writes succeeded has
\* written and printed what the table gives for its batch: the output is a
\* function of the batch, the same after every history.
C16_OutputIsFunctionOfBatch ==
    /\ (pc = "pause" /\ cb = "loop") =>
          /\ i \in 0..Len(msgs)
          /\ Seg = RefData(SubSeq(msgs, 1, i))
          /\ DSeg = RefDiag(SubSeq(msgs, 1, i))
          /\ handled = (\E k \in 1..i : Recognized(msgs[k]))
    /\ (Returned /\ ~SyncFailed) =>
          /\ Seg = RefSeg(msgs)
          /\ DSeg = RefDiag(msgs)

\* C16 witness: after a first batch that was written and synced, a second
\* batch of unrecognized frames wrote and printed nothing.
C16_Witness ==
    /\ Returned
    /\ delivered = 2
    /\ mark > 1
    /\ out[mark] = SyncEvent
    /\ Len(msgs) > 0
    /\ \A k \in DOMAIN msgs : ~Recognized(msgs[k])
    /\ Seg = <<>>
    /\ DSeg = <<>>

\* C18: every event on the device is an EV_ABS event with code wheel, gas
\* or brake, an EV_KEY event with code gear up or gear down, or the
\* EV_SYN/SYN_REPORT marker with value 0; the category and the code of every
\* axis and button event were declared by an ioctl that succeeded, and the
\* descriptor gives a range to each of the three axis codes.
C18_OnlyDeclaredEvents ==
    /\ \A k \in DOMAIN out :
          CASE out[k].type = EV_ABS ->
                  /\ out[k].code \in {ABS_WHEEL, ABS_GAS, ABS_BRAKE}
                  /\ Declared("UI_SET_EVBIT", EV_ABS)
                  /\ Declared("UI_SET_ABSBIT", out[k].code)
                  /\ out[k].code \in DOMAIN uidev.absmin
                  /\ out[k].code \in DOMAIN uidev.absmax
            [] out[k].type = EV_KEY ->
                  /\ out[k].code \in {BTN_GEAR_UP, BTN_GEAR_DOWN}
                  /\ Declared("UI_SET_EVBIT", EV_KEY)
                  /\ Declared("UI_SET_KEYBIT", out[k].code)
            [] out[k].type = EV_SYN ->
                  /\ out[k].code = SYN_REPORT
                  /\ out[k].value = 0
            [] OTHER -> FALSE
    /\ uidev # NoDev =>
          \A c \in {ABS_WHEEL, ABS_GAS, ABS_BRAKE} :
             /\ c \in DOMAIN uidev.absmin
             /\ c \in DOMAIN uidev.absmax
             /\ uidev.absmin[c] <= uidev.absmax[c]

\* C18 witness: a wheel, a brake, two button events and a sync are on the
\* device.
C18_Witness ==
    /\ \E k \in DOMAIN out : out[k].type = EV_ABS /\ out[k].code = ABS_WHEEL
    /\ \E k \in DOMAIN out : out[k].type = EV_ABS /\ out[k].code = ABS_BRAKE
    /\ \E k \in DOMAIN out : out[k].type = EV_KEY /\ out[k].code = BTN_GEAR_UP
    /\ \E k \in DOMAIN out : out[k].type = EV_KEY /\ out[k].code = BTN_GEAR_DOWN
    /\ \E k \in DOMAIN out : out[k] = SyncEvent

\* Events written since the second invocation was entered.
Seg2 == SubSeq(out, mark2 + 1, Len(out))

\* A segment of one batch: its data events in order, then at most one sync,
\* present only if the batch has a frame with a handled identifier.
IsBatchSegment(evs, fs) ==
    \/ evs = RefData(fs)
    \/ /\ evs = RefData(fs) \o <<SyncEvent>>
       /\ \E k \in DOMAIN fs : Recognized(fs[k])

\* C17: as long as no two invocations have been in flight together, the
\* device stream only grows at its end, and it is what it was when the
\* invocation was entered followed by that invocation's segment: the data
\* events of the frames decoded so far while it runs, the batch's data
\* events and at most one sync when it returns; this for either invocation,
\* each entered where the stream then ended.  (With two in flight the
\* writes interleave: see the witness.)
C17_SerialSegments ==
    [][ ~overlap' =>
          /\ SubSeq(out', 1, Len(out)) = out
          /\ (pc' = "pause" /\ cb' = "loop") => Seg' = RefData(SubSeq(msgs', 1, i'))
          /\ (pc' = "pause" /\ cb2' = "loop") => Seg2' = RefData(SubSeq(msgs2', 1, i2'))
          /\ (cb = "idle" /\ cb' = "loop") => mark' = Len(out')
          /\ (cb2 = "idle" /\ cb2' = "loop") => mark2' = Len(out')
          /\ (cb = "loop" /\ cb' = "idle") => IsBatchSegment(Seg', msgs')
          /\ (cb2 = "loop" /\ cb2' = "idle") => IsBatchSegment(Seg2', msgs2') ]_vars

\* C17 witness: two invocations were in flight together, and the sync of
\* the second batch (a malformed throttle frame) was written between the
\* gas event and the brake event of the first.
C17_Witness ==
    /\ overlap
    /\ pc = "pause" /\ cb = "idle" /\ cb2 = "idle"
    /\ msgs = << Frame(kThrottleId, 7, Payload(6, 128, 0)),
                 Frame(kBrakeId, 6, Payload(1, 32, 0)) >>
    /\ msgs2 = << Frame(kThrottleId, 5, Payload(0, 0, 0)) >>
    /\ out = << [type |-> EV_ABS, code |-> ABS_GAS, value |-> 128],
                SyncEvent,
                [type |-> EV_ABS, code |-> ABS_BRAKE, value |-> 32],
                SyncEvent >>

====
